---------------------------- MODULE Spec2Model ----------------------------
(***************************************************************************)
(* A model of examples/powerup_remote/remote.py: the BLE event handler     *)
(* PowerUPHandler, the advertisement Decoder and the PowerUPRemote         *)
(* controller that is built on them.                                       *)
(*                                                                         *)
(* Python's None is the empty tuple and a present value x is <<x>>, so a   *)
(* field that holds "None or a value" is a tuple of length 0 or 1.         *)
(* Bytes objects are sequences of integers in 0..255.                      *)
(***************************************************************************)
EXTENDS Integers, Sequences, FiniteSets, TLC

None == <<>>
Some(x) == <<x>>
Val(o) == o[1]

(***************************************************************************)
(* Bounds of the model.                                                    *)
(***************************************************************************)
\* connection handles the transport hands out are 0 .. MaxConn-1
MaxConn == 2
\* the ready-callback counter of one connection saturates here
MaxReady == 2

\* advertisement buffers handed to one call of __decode_field are at most
\* MaxLen bytes long
MaxLen == 5

ConnHandles == 0 .. (MaxConn - 1)
\* the value handles a characteristic result may report; the second is also
\* the handle of the notifier-enable command
ValueHandles == {11, 12}

(***************************************************************************)
(* Constants of the program.                                               *)
(***************************************************************************)
\* ubluetooth.UUID("00001623-1212-EFDE-1623-785FEABCD123"), as the 16 bytes
\* of the identifier in the order they travel in an advertisement
\* (least significant byte first)
LEGO_SERVICE_UUID ==
    <<35, 209, 188, 234, 95, 120, 35, 22, 222, 239, 18, 18, 35, 22, 0, 0>>
\* ubluetooth.UUID("00001624-1212-EFDE-1623-785FEABCD123")
LEGO_SERVICE_CHAR ==
    <<35, 209, 188, 234, 95, 120, 35, 22, 222, 239, 18, 18, 36, 22, 0, 0>>
\* a 128-bit identifier that is neither of the two above
OTHER_UUID ==
    <<35, 209, 188, 234, 95, 120, 35, 22, 222, 239, 18, 18, 37, 22, 0, 0>>

POWERED_UP_REMOTE_ID == 66
COLOR_GREEN == 6
\* the handle the notifier-enable command is written to (0x0C)
NOTIFIER_HANDLE == 12

(***************************************************************************)
(* Decoder                                                                 *)
(***************************************************************************)
\* payload[a:b] of Python for 0 <= a: the bytes at the 0-based offsets
\* a .. b-1 that exist (a slice never reads outside the buffer)
Slice(payload, a, b) ==
    LET hi == IF b < Len(payload) THEN b ELSE Len(payload)
    IN  IF hi <= a THEN <<>> ELSE [k \in 1 .. (hi - a) |-> payload[a + k]]

\* the loop of Decoder.__decode_field from offset i on; payload[i] of the
\* code is payload[i + 1] here (sequences are 1-based)
RECURSIVE decode_field_from(_, _, _)
decode_field_from(payload, adv_type, i) ==
    IF i + 1 < Len(payload)
    THEN LET rest == decode_field_from(payload, adv_type, i + 1 + payload[i + 1])
         IN  IF payload[i + 2] = adv_type
             THEN <<Slice(payload, i + 2, i + payload[i + 1] + 1)>> \o rest
             ELSE rest
    ELSE <<>>

decode_field(payload, adv_type) == decode_field_from(payload, adv_type, 0)

\* A decoder result is [ok |-> TRUE, val |-> v], or [ok |-> FALSE] when the
\* call raises.
Ok(v) == [ok |-> TRUE, val |-> v]
Raise == [ok |-> FALSE]

\* the company identifier as the code looks it up: unpack('>h') then
\* pack('<h') swaps the two bytes; hexlify writes them as text, here the
\* pair of swapped bytes
company_identifier(field) == <<field[2], field[1]>>

\* __COMPANY_IDENTIFIER_CODES.get(id, "?"): "0397" is the bytes 0x03 0x97
company_name(id) == IF id = <<3, 151>> THEN "LEGO System A/S" ELSE "?"

\* Decoder.decode_manufacturer: [] without a 0xFF field; struct.unpack
\* raises on a first field shorter than the two bytes of the identifier
decode_manufacturer(payload) ==
    LET n == decode_field(payload, 255)
    IN  IF n = <<>> THEN Ok([present |-> FALSE])
        ELSE IF Len(n[1]) < 2 THEN Raise
        ELSE Ok([present |-> TRUE,
                 id      |-> company_identifier(n[1]),
                 name    |-> company_name(company_identifier(n[1])),
                 data    |-> Slice(n[1], 2, Len(n[1]))])

\* Decoder.decode_name: the first 0x09 field as text, or the placeholder.
\* Names of the model are ASCII; a byte above 127 is kept as it is.
decode_name(payload) ==
    LET n == decode_field(payload, 9)
    IN  IF n = <<>> THEN [text |-> "parsing failed!", bytes |-> <<>>]
        ELSE [text |-> "utf-8", bytes |-> n[1]]

\* Decoder.decode_services: the identifiers of the 0x03 fields (the first
\* two bytes, struct.unpack raises on a shorter field), then of the 0x05
\* fields (unpacked as an 8-byte double, which UUID() does not accept, so a
\* 0x05 field raises), then of the 0x07 fields (the bytes as they are)
decode_services(payload) ==
    LET f3 == decode_field(payload, 3)
        f5 == decode_field(payload, 5)
        f7 == decode_field(payload, 7)
    IN  IF \E k \in 1 .. Len(f3) : Len(f3[k]) < 2 THEN Raise
        ELSE IF f5 # <<>> THEN Raise
        ELSE Ok([k \in 1 .. Len(f3) |-> Slice(f3[k], 0, 2)] \o f7)

\* x in list
Contains(list, x) == \E k \in 1 .. Len(list) : list[k] = x

(***************************************************************************)
(* PowerUPRemote: message frames                                           *)
(***************************************************************************)
\* a packing that keeps only the low 7 bits of each integer
create_message_7bit(byte_array) ==
    [k \in 1 .. Len(byte_array) |-> byte_array[k] % 128]

\* PowerUPRemote.__create_message: struct.pack('%sb') stores each integer
\* of the array in one byte (MicroPython keeps the low 8 bits)
create_message(byte_array) ==
    [k \in 1 .. Len(byte_array) |-> byte_array[k] % 256]

BUTTON_A_PLUS == create_message(<<5, 0, 69, 0, 1>>)
BUTTON_A_RED == create_message(<<5, 0, 69, 0, 127>>)
BUTTON_A_MINUS == create_message(<<5, 0, 69, 0, 255>>)
BUTTON_A_RELEASED == create_message(<<5, 0, 69, 0, 0>>)
BUTTON_B_PLUS == create_message(<<5, 0, 69, 1, 1>>)
BUTTON_B_RED == create_message(<<5, 0, 69, 1, 127>>)
BUTTON_B_MINUS == create_message(<<5, 0, 69, 1, 255>>)
BUTTON_B_RELEASED == create_message(<<5, 0, 69, 1, 0>>)
BUTTON_MIDDLE_GREEN == create_message(<<5, 0, 8, 2, 1>>)
BUTTON_MIDDLE_RELEASED == create_message(<<5, 0, 8, 2, 0>>)


(***************************************************************************)
(* State                                                                   *)
(***************************************************************************)
VARIABLES
    \* PowerUPHandler: cached data
    addr, addr_type, adv_type, services, man_data, name,
    conn_handle, value_handle,
    \* PowerUPHandler: reserved callbacks
    scan_callback, read_callback, notify_callback,
    connected_callback, disconnected_callback,
    \* the BLE transport behind self.__ble: a scan is running, a connection
    \* was requested, the connection handles that are live
    ble_scanning, ble_connecting, ble_conns,
    \* the step just taken: the operation or event, the transport commands
    \* it issued, the callbacks it invoked, the light matrix calls it made,
    \* and whether it ended in an exception
    op, cmds, calls, sink, fault,
    \* history: the first matching scan result of the scan that is running
    \* (or has just completed), the number of ready callbacks since the last
    \* peripheral-connect event, the handler's cached data, handles and
    \* callbacks before the step just taken
    scan_match, ready_count, pre,
    \* history kept by the specification that follows one link: the
    \* connection handle that was invalidated, until the next
    \* peripheral-connect event (None otherwise); whether
    \* discover_characteristics was requested since the last
    \* peripheral-connect event
    invalidated, discovering,
    \* one call of Decoder.__decode_field: its arguments, the loop variable
    \* i, the result list and where the call stands
    dec

cached == <<addr, addr_type, adv_type, services, man_data, name>>
handles == <<conn_handle, value_handle>>
callbacks == <<scan_callback, read_callback, notify_callback,
               connected_callback, disconnected_callback>>
handler == <<cached, handles, callbacks>>
ble == <<ble_scanning, ble_connecting, ble_conns>>
vars == <<handler, ble, op, cmds, calls, sink, fault,
          scan_match, ready_count, pre, invalidated, discovering, dec>>

\* the callables of the program; USER stands for a callable of a caller
\* that uses PowerUPHandler directly
REMOTE_SCAN == "PowerUPRemote.__scan_callback"
REMOTE_CONNECT == "PowerUPRemote.__connect_callback"
REMOTE_DISCONNECTED == "PowerUPRemote.__disconnected_callback"
REMOTE_NOTIFICATION == "PowerUPRemote.__notification_callback"
USER == "callback"

\* the history variable pre: the handler's fields as they are now
Snapshot ==
    [addr |-> addr, addr_type |-> addr_type, adv_type |-> adv_type,
     services |-> services, man_data |-> man_data, name |-> name,
     conn_handle |-> conn_handle, value_handle |-> value_handle,
     scan_callback |-> scan_callback, read_callback |-> read_callback,
     notify_callback |-> notify_callback,
     connected_callback |-> connected_callback,
     disconnected_callback |-> disconnected_callback]

\* the handler's fields after PowerUPHandler.__init__
Fresh ==
    [addr |-> None, addr_type |-> None, adv_type |-> None,
     services |-> None, man_data |-> None, name |-> None,
     conn_handle |-> None, value_handle |-> None,
     scan_callback |-> None, read_callback |-> None,
     notify_callback |-> None,
     connected_callback |-> None,
     disconnected_callback |-> None]

\* __reset that leaves the value handle as it is
reset_keeps_value_handle ==
    /\ addr' = None
    /\ addr_type' = None
    /\ adv_type' = None
    /\ services' = None
    /\ man_data' = None
    /\ name' = None
    /\ conn_handle' = None
    /\ value_handle' = value_handle
    /\ scan_callback' = None
    /\ read_callback' = None
    /\ notify_callback' = None
    /\ connected_callback' = None
    /\ disconnected_callback' = None

\* PowerUPHandler.__reset
reset ==
    /\ addr' = None
    /\ addr_type' = None
    /\ adv_type' = None
    /\ services' = None
    /\ man_data' = None
    /\ name' = None
    /\ conn_handle' = None
    /\ value_handle' = None
    /\ scan_callback' = None
    /\ read_callback' = None
    /\ notify_callback' = None
    /\ connected_callback' = None
    /\ disconnected_callback' = None

\* PowerUPHandler.__is_connected, of a connection handle field
is_connected(ch) == ch # None

\* the link is Ready: the target characteristic's value handle was captured
Ready == conn_handle # None /\ value_handle # None

\* PowerUPHandler.__init__ (and PowerUPRemote.__init__ around it): __reset
\* leaves every field None
HandlerInit ==
    /\ addr = None
    /\ addr_type = None
    /\ adv_type = None
    /\ services = None
    /\ man_data = None
    /\ name = None
    /\ conn_handle = None
    /\ value_handle = None
    /\ scan_callback = None
    /\ read_callback = None
    /\ notify_callback = None
    /\ connected_callback = None
    /\ disconnected_callback = None
    /\ ble_scanning = FALSE
    /\ ble_connecting = FALSE
    /\ ble_conns = {}
    /\ op = [name |-> "__init__"]
    /\ cmds = <<>>
    /\ calls = <<>>
    /\ sink = <<>>
    /\ fault = FALSE
    /\ scan_match = None
    /\ ready_count = 0
    /\ pre = Fresh

Init ==
    /\ HandlerInit
    /\ invalidated = None
    /\ discovering = FALSE
    /\ dec = [pc |-> "idle"]

\* the steps of the handler and of the remote leave the decoder call and
\* the history of one link alone
Quiet == UNCHANGED <<invalidated, discovering, dec>>

\* what every step records about itself
Step(o, c, k, s, f) ==
    /\ op' = o
    /\ cmds' = c
    /\ calls' = k
    /\ sink' = s
    /\ fault' = f
    /\ pre' = Snapshot

(***************************************************************************)
(* Inputs                                                                  *)
(***************************************************************************)
ADDR_A == <<1, 2, 3, 4, 5, 10>>
ADDR_B == <<1, 2, 3, 4, 5, 11>>

\* advertisement records: flags, the 128-bit service list, the name
REC_FLAGS == <<2, 1, 6>>
REC_LEGO_SERVICE == <<17, 7>> \o LEGO_SERVICE_UUID
REC_OTHER_SERVICE == <<17, 7>> \o OTHER_UUID
REC_NAME == <<3, 9, 80, 85>>
\* manufacturer records of LEGO System A/S (0x97 0x03): a remote (device
\* type 66), a hub (device type 64), one that ends before the device type
\* byte, and one that ends inside the company identifier
REC_MAN_REMOTE == <<5, 255, 151, 3, 0, 66>>
REC_MAN_HUB == <<5, 255, 151, 3, 0, 64>>
REC_MAN_SHORT == <<4, 255, 151, 3, 0>>
REC_MAN_CUT == <<2, 255, 151>>

ADV_REMOTE == REC_FLAGS \o REC_LEGO_SERVICE \o REC_MAN_REMOTE
ADV_HUB == REC_FLAGS \o REC_LEGO_SERVICE \o REC_NAME \o REC_MAN_HUB
ADV_NO_MAN == REC_FLAGS \o REC_LEGO_SERVICE
ADV_SHORT_MAN == REC_LEGO_SERVICE \o REC_MAN_SHORT
ADV_CUT_MAN == REC_LEGO_SERVICE \o REC_MAN_CUT
ADV_OTHER == REC_FLAGS \o REC_OTHER_SERVICE \o REC_MAN_REMOTE

\* the scan-result events the transport may deliver (rssi is not used):
\* a remote and a peripheral without the LEGO service
ScanResults ==
    { [addr_type |-> 0, addr |-> ADDR_A, adv_type |-> 0, adv_data |-> ADV_REMOTE],
      [addr_type |-> 1, addr |-> ADDR_B, adv_type |-> 0, adv_data |-> ADV_OTHER] }
\* and with them the peripherals whose manufacturer data is another
\* device's, absent, or cut short
AllScanResults ==
    { [addr_type |-> 0, addr |-> ADDR_A, adv_type |-> 0, adv_data |-> ADV_REMOTE],
      [addr_type |-> 1, addr |-> ADDR_B, adv_type |-> 0, adv_data |-> ADV_HUB],
      [addr_type |-> 1, addr |-> ADDR_B, adv_type |-> 0, adv_data |-> ADV_NO_MAN],
      [addr_type |-> 0, addr |-> ADDR_A, adv_type |-> 0, adv_data |-> ADV_SHORT_MAN],
      [addr_type |-> 1, addr |-> ADDR_B, adv_type |-> 0, adv_data |-> ADV_CUT_MAN],
      [addr_type |-> 1, addr |-> ADDR_B, adv_type |-> 0, adv_data |-> ADV_OTHER] }

\* the frames a notification may carry: the ten button literals, a frame
\* that differs from one in its last byte, and one that is cut short
KnownFrames ==
    { BUTTON_A_PLUS, BUTTON_A_RED, BUTTON_A_MINUS, BUTTON_A_RELEASED,
      BUTTON_B_PLUS, BUTTON_B_RED, BUTTON_B_MINUS, BUTTON_B_RELEASED,
      BUTTON_MIDDLE_GREEN, BUTTON_MIDDLE_RELEASED }
AllFrames == KnownFrames \cup { <<5, 0, 69, 0, 2>>, <<5, 0, 69>> }
\* a recognised frame and an unrecognised one
Frames == { BUTTON_A_PLUS, <<5, 0, 69, 0, 2>> }

\* identifiers a service result and a characteristic result may carry
ServiceUuids == { LEGO_SERVICE_UUID, OTHER_UUID }
CharUuids == { LEGO_SERVICE_CHAR, OTHER_UUID }

(***************************************************************************)
(* Transport commands and callback bodies                                  *)
(***************************************************************************)
\* truth value of an integer, and of a bytes object, that may be None
TruthyInt(o) == o # None /\ Val(o) # 0
TruthyBytes(o) == o # None /\ Val(o) # <<>>

\* write that sends every frame to the value handle
handler_write_ignores_adv_value(ch, vh, data, adv_value) ==
    IF ch = None THEN <<>>
    ELSE <<[cmd |-> "gattc_write", conn |-> ch, handle |-> vh, data |-> data]>>

\* the transport calls PowerUPHandler.write makes for the handles ch, vh
handler_write(ch, vh, data, adv_value) ==
    IF ~is_connected(ch) THEN <<>>
    ELSE IF TruthyInt(adv_value)
         THEN <<[cmd |-> "gattc_write", conn |-> ch, handle |-> adv_value,
                 data |-> data]>>
         ELSE <<[cmd |-> "gattc_write", conn |-> ch, handle |-> vh,
                 data |-> data]>>

\* PowerUPRemote.__set_remote_color
set_remote_color(ch, vh, color_byte) ==
    handler_write(ch, vh,
                  create_message(<<8, 0, 129, 52, 17, 81, 0, color_byte>>), None)

LEFT_PORT == create_message(<<10, 0, 65, 0, 0, 1, 0, 0, 0, 1>>)
RIGHT_PORT == create_message(<<10, 0, 65, 1, 0, 1, 0, 0, 0, 1>>)
NOTIFIER == create_message(<<1, 0>>)

\* PowerUPRemote.__connect_callback: the transport calls it makes
remote_connect_callback(ch, vh) ==
    set_remote_color(ch, vh, COLOR_GREEN)
    \o handler_write(ch, vh, LEFT_PORT, None)
    \o handler_write(ch, vh, RIGHT_PORT, None)
    \o handler_write(ch, vh, NOTIFIER, Some(NOTIFIER_HANDLE))

\* PowerUPRemote.__scan_callback: whether it raises, and the transport
\* calls it makes (handler.connect is one gap_connect)
remote_scan_callback(at, a, md) ==
    IF ~TruthyBytes(a) THEN [raised |-> FALSE, cmds |-> <<>>]
    ELSE IF md = None \/ ~Val(md).present
         THEN [raised |-> TRUE, cmds |-> <<>>]
    ELSE IF Len(Val(md).data) < 2 THEN [raised |-> TRUE, cmds |-> <<>>]
    ELSE IF Val(md).data[2] = POWERED_UP_REMOTE_ID
         THEN [raised |-> FALSE,
               cmds |-> <<[cmd |-> "gap_connect", addr_type |-> at, addr |-> a]>>]
         ELSE [raised |-> FALSE, cmds |-> <<>>]

\* light_matrix.set_pixel(x, y, brightness=100) and light_matrix.off()
set_pixel(x, y) == [call |-> "set_pixel", x |-> x, y |-> y, brightness |-> 100]
off == [call |-> "off"]

\* PowerUPRemote.__notification_callback: the light matrix call it makes;
\* before it, the callback without the branch of the middle button
remote_notification_callback_without_middle(data) ==
    IF data = BUTTON_A_PLUS THEN <<set_pixel(0, 0)>>
    ELSE IF data = BUTTON_A_RED THEN <<set_pixel(0, 1)>>
    ELSE IF data = BUTTON_A_MINUS THEN <<set_pixel(0, 2)>>
    ELSE IF data = BUTTON_B_PLUS THEN <<set_pixel(0, 3)>>
    ELSE IF data = BUTTON_B_RED THEN <<set_pixel(0, 4)>>
    ELSE IF data = BUTTON_B_MINUS THEN <<set_pixel(1, 0)>>
    ELSE <<off>>

remote_notification_callback(data) ==
    IF data = BUTTON_A_PLUS THEN <<set_pixel(0, 0)>>
    ELSE IF data = BUTTON_A_RED THEN <<set_pixel(0, 1)>>
    ELSE IF data = BUTTON_A_MINUS THEN <<set_pixel(0, 2)>>
    ELSE IF data = BUTTON_B_PLUS THEN <<set_pixel(0, 3)>>
    ELSE IF data = BUTTON_B_RED THEN <<set_pixel(0, 4)>>
    ELSE IF data = BUTTON_B_MINUS THEN <<set_pixel(1, 0)>>
    ELSE IF data = BUTTON_MIDDLE_GREEN THEN <<set_pixel(2, 0)>>
    ELSE <<off>>

\* one invocation of the callable cb with the arguments args
Call(cb, args) == [callback |-> cb, args |-> args]

\* a command of the kind c is among the commands q
Issued(q, c) == \E k \in 1 .. Len(q) : q[k].cmd = c

(***************************************************************************)
(* PowerUPHandler: the public operations                                   *)
(***************************************************************************)
\* PowerUPHandler.scan_start. A scan started while one is running takes its
\* place and the two complete as one, so the history of matches starts
\* afresh only when no scan is running.
scan_start(timeout, callback) ==
    /\ scan_callback' = Some(callback)
    /\ ble_scanning' = TRUE
    /\ scan_match' = IF ble_scanning THEN scan_match ELSE None
    /\ cmds' = <<[cmd |-> "gap_scan", timeout |-> Some(timeout)]>>

\* PowerUPHandler.on_notify, on_connect, on_disconnect
on_notify(callback) == notify_callback' = Some(callback)
on_connect(callback) == connected_callback' = Some(callback)
on_disconnect(callback) == disconnected_callback' = Some(callback)

\* PowerUPRemote.connect
RemoteConnect ==
    /\ on_connect(REMOTE_CONNECT)
    /\ on_disconnect(REMOTE_DISCONNECTED)
    /\ on_notify(REMOTE_NOTIFICATION)
    /\ scan_start(3000, REMOTE_SCAN)
    /\ op' = [name |-> "connect"]
    /\ calls' = <<>> /\ sink' = <<>> /\ fault' = FALSE /\ pre' = Snapshot
    /\ UNCHANGED <<cached, handles, read_callback, ble_connecting, ble_conns,
                   ready_count>>

\* PowerUPHandler.write, called from outside the connect callback
Write ==
    \E data \in {NOTIFIER}, adv_value \in {None, Some(NOTIFIER_HANDLE)} :
        /\ Step([name |-> "write", data |-> data, adv_value |-> adv_value],
                handler_write(conn_handle, value_handle, data, adv_value),
                <<>>, <<>>, FALSE)
        /\ UNCHANGED <<handler, ble, scan_match, ready_count>>

\* PowerUPHandler.read
Read ==
    /\ IF is_connected(conn_handle)
       THEN /\ read_callback' = Some(USER)
            /\ cmds' = <<[cmd |-> "gattc_read", conn |-> conn_handle,
                          handle |-> value_handle]>>
       ELSE /\ read_callback' = read_callback
            /\ cmds' = <<>>
    /\ op' = [name |-> "read", callback |-> USER]
    /\ calls' = <<>> /\ sink' = <<>> /\ fault' = FALSE /\ pre' = Snapshot
    /\ UNCHANGED <<cached, handles, scan_callback, notify_callback,
                   connected_callback, disconnected_callback, ble,
                   scan_match, ready_count>>

\* PowerUPHandler.connect, called from outside the scan callback
Connect ==
    \E r \in {x \in ScanResults : x.addr = ADDR_A} :
        /\ Step([name |-> "handler.connect", addr_type |-> r.addr_type,
                 addr |-> r.addr],
                <<[cmd |-> "gap_connect", addr_type |-> Some(r.addr_type),
                   addr |-> Some(r.addr)]>>,
                <<>>, <<>>, FALSE)
        /\ ble_connecting' = TRUE
        /\ UNCHANGED <<handler, ble_scanning, ble_conns, scan_match, ready_count>>

\* disconnect without the test of __is_connected
Disconnect_unguarded ==
    /\ cmds' = <<[cmd |-> "gap_disconnect", conn |-> conn_handle]>>
    /\ reset
    /\ op' = [name |-> "disconnect"]
    /\ calls' = <<>> /\ sink' = <<>> /\ fault' = FALSE /\ pre' = Snapshot
    /\ UNCHANGED <<ble, scan_match, ready_count>>

\* PowerUPHandler.disconnect (PowerUPRemote.disconnect calls it)
Disconnect ==
    /\ IF is_connected(conn_handle)
       THEN /\ cmds' = <<[cmd |-> "gap_disconnect", conn |-> conn_handle]>>
            /\ reset
       ELSE /\ cmds' = <<>>
            /\ UNCHANGED handler
    /\ op' = [name |-> "disconnect"]
    /\ calls' = <<>> /\ sink' = <<>> /\ fault' = FALSE /\ pre' = Snapshot
    /\ UNCHANGED <<ble, scan_match, ready_count>>

(***************************************************************************)
(* PowerUPHandler.__irq, one action for each event                         *)
(***************************************************************************)
\* IRQ_SCAN_RESULT, for the scan results R
irq_scan_result(R) ==
    \E r \in R :
        LET sv == decode_services(r.adv_data)
            md == decode_manufacturer(r.adv_data)
            match == sv.ok /\ Contains(sv.val, LEGO_SERVICE_UUID)
        IN  /\ ble_scanning
            /\ IF match
               THEN /\ addr_type' = Some(r.addr_type)
                    /\ addr' = Some(r.addr)
                    /\ adv_type' = Some(r.adv_type)
                    /\ name' = Some(decode_name(r.adv_data))
                    /\ services' = Some(sv.val)
                    /\ man_data' = IF md.ok THEN Some(md.val) ELSE man_data
               ELSE UNCHANGED cached
            /\ Step([name |-> "IRQ_SCAN_RESULT", data |-> r],
                    IF match /\ md.ok
                    THEN <<[cmd |-> "gap_scan", timeout |-> None]>> ELSE <<>>,
                    <<>>, <<>>,
                    ~sv.ok \/ (match /\ ~md.ok))
            /\ scan_match' = IF match /\ scan_match = None THEN Some(r)
                             ELSE scan_match
            /\ UNCHANGED <<handles, callbacks, ble, ready_count>>

IrqScanResult == irq_scan_result(ScanResults)
IrqScanResultAny == irq_scan_result(AllScanResults)

\* IRQ_SCAN_COMPLETE
IrqScanComplete ==
    LET args == IF TruthyBytes(addr) THEN <<addr_type, addr, man_data>>
                ELSE <<None, None, None>>
        body == IF scan_callback = Some(REMOTE_SCAN)
                THEN remote_scan_callback(args[1], args[2], args[3])
                ELSE [raised |-> FALSE, cmds |-> <<>>]
    IN  /\ ble_scanning
        /\ ble_scanning' = FALSE
        /\ IF scan_callback = None
           THEN /\ Step([name |-> "IRQ_SCAN_COMPLETE"], <<>>, <<>>, <<>>, TRUE)
                /\ UNCHANGED <<scan_callback, ble_connecting>>
           ELSE /\ Step([name |-> "IRQ_SCAN_COMPLETE"], body.cmds,
                        <<Call(Val(scan_callback), args)>>, <<>>, body.raised)
                /\ scan_callback' = IF TruthyBytes(addr) /\ ~body.raised
                                    THEN None ELSE scan_callback
                /\ ble_connecting' =
                       (ble_connecting \/ Issued(body.cmds, "gap_connect"))
        /\ UNCHANGED <<cached, handles, read_callback, notify_callback,
                       connected_callback, disconnected_callback, ble_conns,
                       scan_match, ready_count>>

\* IRQ_PERIPHERAL_CONNECT
IrqPeripheralConnect ==
    \E h \in ConnHandles \ ble_conns :
        /\ ble_connecting
        /\ ble_connecting' = FALSE
        /\ ble_conns' = ble_conns \cup {h}
        /\ conn_handle' = Some(h)
        /\ Step([name |-> "IRQ_PERIPHERAL_CONNECT", conn_handle |-> h],
                <<[cmd |-> "gattc_discover_services", conn |-> Some(h)]>>,
                <<>>, <<>>, FALSE)
        /\ ready_count' = 0
        /\ UNCHANGED <<cached, value_handle, callbacks, ble_scanning, scan_match>>

\* IRQ_PERIPHERAL_DISCONNECT
IrqPeripheralDisconnect ==
    \E h \in ble_conns :
        /\ ble_conns' = ble_conns \ {h}
        /\ IF disconnected_callback = None
           THEN /\ Step([name |-> "IRQ_PERIPHERAL_DISCONNECT", conn_handle |-> h],
                        <<>>, <<>>, <<>>, TRUE)
                /\ UNCHANGED handler
           ELSE /\ Step([name |-> "IRQ_PERIPHERAL_DISCONNECT", conn_handle |-> h],
                        <<>>, <<Call(Val(disconnected_callback), <<>>)>>,
                        <<>>, FALSE)
                /\ IF Some(h) = conn_handle THEN reset ELSE UNCHANGED handler
        /\ UNCHANGED <<ble_scanning, ble_connecting, scan_match, ready_count>>

\* IRQ_GATTC_SERVICE_RESULT
IrqServiceResult ==
    \E h \in ble_conns, uuid \in ServiceUuids :
        /\ Step([name |-> "IRQ_GATTC_SERVICE_RESULT", conn_handle |-> h,
                 start_handle |-> 1, end_handle |-> 15, uuid |-> uuid],
                IF Some(h) = conn_handle /\ uuid = LEGO_SERVICE_UUID
                THEN <<[cmd |-> "gattc_discover_characteristics",
                        conn |-> conn_handle, start |-> 1, end |-> 15]>>
                ELSE <<>>,
                <<>>, <<>>, FALSE)
        /\ UNCHANGED <<handler, ble, scan_match, ready_count>>

\* the characteristic-result branch without the comparison of the
\* connection handle
IrqCharacteristicResult_any_handle ==
    \E h \in ble_conns, vh \in ValueHandles, uuid \in CharUuids :
        LET match == uuid = LEGO_SERVICE_CHAR
            called == match /\ connected_callback # None
        IN  /\ value_handle' = IF match THEN Some(vh) ELSE value_handle
            /\ Step([name |-> "IRQ_GATTC_CHARACTERISTIC_RESULT",
                     conn_handle |-> h, value_handle |-> vh, uuid |-> uuid],
                    IF called /\ connected_callback = Some(REMOTE_CONNECT)
                    THEN remote_connect_callback(conn_handle, Some(vh))
                    ELSE <<>>,
                    IF called THEN <<Call(Val(connected_callback), <<>>)>>
                    ELSE <<>>,
                    <<>>,
                    match /\ connected_callback = None)
            /\ ready_count' = IF called /\ ready_count < MaxReady
                              THEN ready_count + 1 ELSE ready_count
            /\ UNCHANGED <<cached, conn_handle, callbacks, ble, scan_match>>

\* IRQ_GATTC_CHARACTERISTIC_RESULT
IrqCharacteristicResult ==
    \E h \in ble_conns, vh \in ValueHandles, uuid \in CharUuids :
        LET match == Some(h) = conn_handle /\ uuid = LEGO_SERVICE_CHAR
            called == match /\ connected_callback # None
        IN  /\ value_handle' = IF match THEN Some(vh) ELSE value_handle
            /\ Step([name |-> "IRQ_GATTC_CHARACTERISTIC_RESULT",
                     conn_handle |-> h, value_handle |-> vh, uuid |-> uuid],
                    IF called /\ connected_callback = Some(REMOTE_CONNECT)
                    THEN remote_connect_callback(conn_handle, Some(vh))
                    ELSE <<>>,
                    IF called THEN <<Call(Val(connected_callback), <<>>)>>
                    ELSE <<>>,
                    <<>>,
                    match /\ connected_callback = None)
            /\ ready_count' = IF called /\ ready_count < MaxReady
                              THEN ready_count + 1 ELSE ready_count
            /\ UNCHANGED <<cached, conn_handle, callbacks, ble, scan_match>>

\* IRQ_GATTC_READ_RESULT
IrqReadResult ==
    \E h \in ble_conns, data \in {NOTIFIER} :
        /\ Step([name |-> "IRQ_GATTC_READ_RESULT", conn_handle |-> h,
                 data |-> data],
                <<>>,
                IF read_callback # None
                THEN <<Call(Val(read_callback), <<data>>)>> ELSE <<>>,
                <<>>, FALSE)
        /\ UNCHANGED <<handler, ble, scan_match, ready_count>>

\* IRQ_GATTC_NOTIFY, for the frames F
irq_notify(F) ==
    \E h \in ble_conns, data \in F :
        /\ Step([name |-> "IRQ_GATTC_NOTIFY", conn_handle |-> h, data |-> data],
                <<>>,
                IF notify_callback # None
                THEN <<Call(Val(notify_callback), <<data>>)>> ELSE <<>>,
                IF notify_callback = Some(REMOTE_NOTIFICATION)
                THEN remote_notification_callback(data) ELSE <<>>,
                FALSE)
        /\ UNCHANGED <<handler, ble, scan_match, ready_count>>

IrqNotify == irq_notify(Frames)
IrqNotifyAny == irq_notify(AllFrames)

Next ==
    \/ RemoteConnect /\ Quiet
    \/ Write /\ Quiet
    \/ Read /\ Quiet
    \/ Connect /\ Quiet
    \/ Disconnect /\ Quiet
    \/ IrqScanResult /\ Quiet
    \/ IrqScanComplete /\ Quiet
    \/ IrqPeripheralConnect /\ Quiet
    \/ IrqPeripheralDisconnect /\ Quiet
    \/ IrqServiceResult /\ Quiet
    \/ IrqCharacteristicResult /\ Quiet
    \/ IrqReadResult /\ Quiet
    \/ IrqNotify /\ Quiet

Spec == Init /\ [][Next]_vars

\* scanning alone, over every kind of advertisement
NextScan ==
    \/ RemoteConnect /\ Quiet
    \/ IrqScanResultAny /\ Quiet
    \/ IrqScanComplete /\ Quiet

SpecScan == Init /\ [][NextScan]_vars

\* one connection and its notifications, over every frame
NextNotify ==
    \/ RemoteConnect /\ Quiet
    \/ Connect /\ Quiet
    \/ Disconnect /\ Quiet
    \/ IrqPeripheralConnect /\ Quiet
    \/ IrqPeripheralDisconnect /\ Quiet
    \/ IrqNotifyAny /\ Quiet

SpecNotify == Init /\ [][NextNotify]_vars

\* the history of one link, written after each step: a peripheral-connect
\* event supplies a new handle; a peripheral-disconnect event for the held
\* handle and a call of disconnect() on a held handle invalidate it; a
\* request of discover_characteristics is remembered until the handle is
\* replaced or dropped
Track ==
    /\ invalidated' =
           IF op'.name = "IRQ_PERIPHERAL_CONNECT" THEN None
           ELSE IF /\ op'.name = "IRQ_PERIPHERAL_DISCONNECT"
                   /\ Some(op'.conn_handle) = conn_handle
                THEN conn_handle
           ELSE IF op'.name = "disconnect" /\ conn_handle # None
                THEN conn_handle
           ELSE invalidated
    /\ discovering' =
           IF op'.name = "IRQ_PERIPHERAL_CONNECT" \/ conn_handle' = None
           THEN FALSE
           ELSE (discovering \/ Issued(cmds', "gattc_discover_characteristics"))
    /\ UNCHANGED dec

\* one link from connect to disconnect, with its history
NextLink ==
    \/ RemoteConnect /\ Track
    \/ Connect /\ Track
    \/ Disconnect /\ Track
    \/ Write /\ Track
    \/ IrqPeripheralConnect /\ Track
    \/ IrqPeripheralDisconnect /\ Track
    \/ IrqServiceResult /\ Track
    \/ IrqCharacteristicResult /\ Track

SpecLink == Init /\ [][NextLink]_vars

\* the color bytes __set_remote_color is called with: the four color
\* constants of the class, and the ends of the byte range
Colors == {0, 3, 4, 5, 6, 255}

\* PowerUPRemote.__set_remote_color, called on its own
SetRemoteColor ==
    \E color_byte \in Colors :
        /\ Step([name |-> "set_remote_color", color_byte |-> color_byte],
                set_remote_color(conn_handle, value_handle, color_byte),
                <<>>, <<>>, FALSE)
        /\ UNCHANGED <<handler, ble, scan_match, ready_count>>

\* one connection and the color commands sent over it
NextColor ==
    \/ RemoteConnect /\ Quiet
    \/ Connect /\ Quiet
    \/ Disconnect /\ Quiet
    \/ IrqPeripheralConnect /\ Quiet
    \/ IrqCharacteristicResult /\ Quiet
    \/ SetRemoteColor /\ Quiet

SpecColor == Init /\ [][NextColor]_vars

(***************************************************************************)
(* Decoder.__decode_field, one loop iteration at a time                    *)
(***************************************************************************)
\* the bytes of the buffers, the tags of their records and the tags
\* searched for
DecBytes == {0, 1, 2, 3, 255}
DecTags == {1, 3, 255}
Searched == {3, 255}

\* the byte sequences of at most n bytes
BytesUpTo(n) == UNION { [1 .. k -> DecBytes] : k \in 0 .. n }

\* an advertisement record and the bytes it is sent as: the length byte
\* counts the tag and the payload
Record(tag, payload) == [tag |-> tag, payload |-> payload]
EncodeRecord(r) == <<Len(r.payload) + 1, r.tag>> \o r.payload
RECURSIVE Encode(_)
Encode(rs) == IF rs = <<>> THEN <<>>
              ELSE EncodeRecord(Head(rs)) \o Encode(Tail(rs))

\* the lists of records that are sent in at most n bytes
RECURSIVE RecordLists(_)
RecordLists(n) ==
    IF n < 2 THEN { <<>> }
    ELSE { <<>> } \cup
         UNION { { <<r>> \o rest : rest \in RecordLists(n - Len(EncodeRecord(r))) } :
                 r \in { Record(t, p) : t \in DecTags, p \in BytesUpTo(n - 2) } }

\* the 0-based offsets payload[a:b] reads
SliceOffsets(payload, a, b) ==
    { k \in a .. (b - 1) : k < Len(payload) }

\* the call is handed a buffer: any bytes, or the bytes of a list of records
DecodeStart(payload, tag, records) ==
    [pc |-> "loop", payload |-> payload, adv_type |-> tag,
     records |-> records, i |-> 0, at |-> 0, result |-> <<>>,
     reads |-> {}, iterations |-> 0]

InitDecode ==
    /\ HandlerInit
    /\ invalidated = None
    /\ discovering = FALSE
    /\ \E t \in Searched :
          \/ \E b \in BytesUpTo(MaxLen) : dec = DecodeStart(b, t, None)
          \/ \E rs \in RecordLists(MaxLen) :
                dec = DecodeStart(Encode(rs), t, Some(rs))

\* the iteration with a slice that ends one byte early
DecodeIterate_short ==
    LET i == dec.i
        length == dec.payload[i + 1]
    IN  /\ dec.pc = "loop"
        /\ i + 1 < Len(dec.payload)
        /\ dec' = [dec EXCEPT
              !.result = IF dec.payload[i + 2] = dec.adv_type
                         THEN Append(@, Slice(dec.payload, i + 2, i + length))
                         ELSE @,
              !.i = i + 1 + length,
              !.at = i,
              !.reads = {i, i + 1},
              !.iterations = @ + 1]
        /\ UNCHANGED <<handler, ble, op, cmds, calls, sink, fault, scan_match,
                       ready_count, pre, invalidated, discovering>>

\* one iteration of the while loop (lines 215-218): dec.at is the offset
\* of the record it looked at, dec.reads the offsets it read
DecodeIterate ==
    LET i == dec.i
        length == dec.payload[i + 1]
    IN  /\ dec.pc = "loop"
        /\ i + 1 < Len(dec.payload)
        /\ dec' = [dec EXCEPT
              !.result = IF dec.payload[i + 2] = dec.adv_type
                         THEN Append(@, Slice(dec.payload, i + 2, i + length + 1))
                         ELSE @,
              !.i = i + 1 + length,
              !.at = i,
              !.reads = {i, i + 1} \cup
                        (IF dec.payload[i + 2] = dec.adv_type
                         THEN SliceOffsets(dec.payload, i + 2, i + length + 1)
                         ELSE {}),
              !.iterations = @ + 1]
        /\ UNCHANGED <<handler, ble, op, cmds, calls, sink, fault, scan_match,
                       ready_count, pre, invalidated, discovering>>

\* the loop ends and the result is returned (line 219)
DecodeReturn ==
    /\ dec.pc = "loop"
    /\ ~(dec.i + 1 < Len(dec.payload))
    /\ dec' = [dec EXCEPT !.pc = "done", !.reads = {}]
    /\ UNCHANGED <<handler, ble, op, cmds, calls, sink, fault, scan_match,
                   ready_count, pre, invalidated, discovering>>

NextDecode ==
    \/ DecodeIterate
    \/ DecodeReturn

SpecDecode == InitDecode /\ [][NextDecode]_vars


(***************************************************************************)
(* Properties                                                              *)
(***************************************************************************)
IrqNames ==
    { "IRQ_SCAN_RESULT", "IRQ_SCAN_COMPLETE", "IRQ_PERIPHERAL_CONNECT",
      "IRQ_PERIPHERAL_DISCONNECT", "IRQ_GATTC_SERVICE_RESULT",
      "IRQ_GATTC_CHARACTERISTIC_RESULT", "IRQ_GATTC_READ_RESULT",
      "IRQ_GATTC_NOTIFY" }

\* the link was Ready before the step just taken
PreReady == pre.conn_handle # None /\ pre.value_handle # None

\* C1: write(data) and read(callback), called while the link is not Ready,
\* issue no transport command and change no field of the handler.
C1_NotReadyNoEffect ==
    (op.name \in {"write", "read"} /\ ~PreReady)
        => (cmds = <<>> /\ Snapshot = pre)

\* C2: a peripheral-disconnect event handled while no connection handle is
\* held invokes no callback and changes no field of the handler.
C2_DisconnectWhileIdleNoOp ==
    (op.name = "IRQ_PERIPHERAL_DISCONNECT" /\ pre.conn_handle = None)
        => (calls = <<>> /\ Snapshot = pre)

\* C3: a peripheral-disconnect event for the held connection handle, handled
\* while the link is Ready and a disconnect callback is registered, invokes
\* that callback exactly once and leaves the connection handle, the value
\* handle and the cached peripheral data cleared.
C3_DisconnectWhileReady ==
    (/\ op.name = "IRQ_PERIPHERAL_DISCONNECT"
     /\ PreReady
     /\ Some(op.conn_handle) = pre.conn_handle
     /\ pre.disconnected_callback # None)
        => (/\ calls = <<Call(Val(pre.disconnected_callback), <<>>)>>
            /\ ~fault
            /\ conn_handle = None
            /\ value_handle = None
            /\ cached = <<None, None, None, None, None, None>>)

C3_Witness ==
    /\ op.name = "IRQ_PERIPHERAL_DISCONNECT"
    /\ PreReady
    /\ Some(op.conn_handle) = pre.conn_handle
    /\ pre.disconnected_callback = Some(REMOTE_DISCONNECTED)
    /\ pre.addr # None

\* C4: between one peripheral-connect event and the next, the ready
\* callback is invoked at most once, whatever service and characteristic
\* results follow the first matching one.
C4_ReadyOncePerConnection == ready_count <= 1

\* C5: an invocation of the connect callback of PowerUPRemote issues exactly
\* four writes on the held connection: the green color frame, the left-port
\* frame and the right-port frame to the value handle, then the notifier
\* frame to handle 12 (0x0C), and no other transport command.
C5_SetupSequence ==
    (/\ op.name = "IRQ_GATTC_CHARACTERISTIC_RESULT"
     /\ Contains(calls, Call(REMOTE_CONNECT, <<>>)))
        => (/\ Ready
            /\ value_handle = Some(op.value_handle)
            /\ cmds =
                << [cmd |-> "gattc_write", conn |-> conn_handle,
                    handle |-> value_handle,
                    data |-> <<8, 0, 129, 52, 17, 81, 0, 6>>],
                   [cmd |-> "gattc_write", conn |-> conn_handle,
                    handle |-> value_handle,
                    data |-> <<10, 0, 65, 0, 0, 1, 0, 0, 0, 1>>],
                   [cmd |-> "gattc_write", conn |-> conn_handle,
                    handle |-> value_handle,
                    data |-> <<10, 0, 65, 1, 0, 1, 0, 0, 0, 1>>],
                   [cmd |-> "gattc_write", conn |-> conn_handle,
                    handle |-> Some(12),
                    data |-> <<1, 0>>] >>)

C5_Witness ==
    /\ op.name = "IRQ_GATTC_CHARACTERISTIC_RESULT"
    /\ calls = <<Call(REMOTE_CONNECT, <<>>)>>
    /\ value_handle = Some(11)
    /\ Len(cmds) = 4

\* the arguments the scan callback is owed for the scan that has completed:
\* those of its first matching scan result, or the not-found value
ScanOutcome ==
    IF scan_match = None THEN <<None, None, None>>
    ELSE LET m == Val(scan_match)
             md == decode_manufacturer(m.adv_data)
         IN  <<Some(m.addr_type), Some(m.addr),
               IF md.ok THEN Some(md.val) ELSE None>>

\* C6: the scan callback is never invoked on a scan-result event, and on the
\* scan-complete event it is invoked exactly once, with the peripheral this
\* scan matched or with (None, None, None) if this scan matched none.
C6_ScanCallbackOncePerScan ==
    /\ (op.name = "IRQ_SCAN_RESULT" => calls = <<>>)
    /\ (op.name = "IRQ_SCAN_COMPLETE" /\ pre.scan_callback # None)
           => calls = <<Call(Val(pre.scan_callback), ScanOutcome)>>

\* C7: no event ends in an exception raised inside the event handler.
C7_NoFaultInIrq == (op.name \in IrqNames) => ~fault

\* the device-type byte of the manufacturer data md handed to the scan
\* callback is that of the remote
IsRemote(md) ==
    /\ md # None
    /\ Val(md).present
    /\ Len(Val(md).data) >= 2
    /\ Val(md).data[2] = 66

\* C8: the scan callback of PowerUPRemote requests a connection exactly when
\* it is handed an address and manufacturer data whose device-type byte is
\* 66; in every other case it requests none and does not raise.
C8_ConnectIffRemote ==
    (/\ op.name = "IRQ_SCAN_COMPLETE"
     /\ calls # <<>>
     /\ calls[1].callback = REMOTE_SCAN)
        => (/\ ~fault
            /\ Issued(cmds, "gap_connect")
                 <=> (calls[1].args[2] # None /\ IsRemote(calls[1].args[3])))

\* the light matrix call of a notification handled by PowerUPRemote
Dispatched ==
    /\ op.name = "IRQ_GATTC_NOTIFY"
    /\ calls # <<>>
    /\ calls[1].callback = REMOTE_NOTIFICATION

\* the ten button literals of PowerUPRemote.__init__, byte by byte
Literals ==
    { <<5, 0, 69, 0, 1>>, <<5, 0, 69, 0, 127>>, <<5, 0, 69, 0, 255>>,
      <<5, 0, 69, 0, 0>>, <<5, 0, 69, 1, 1>>, <<5, 0, 69, 1, 127>>,
      <<5, 0, 69, 1, 255>>, <<5, 0, 69, 1, 0>>, <<5, 0, 8, 2, 1>>,
      <<5, 0, 8, 2, 0>> }

\* C9 as stated: every one of the ten literals lights a pixel at brightness
\* 100 (Button A Plus the pixel (0,0)), and the display is cleared only for
\* a frame that is none of the ten.
C9_EveryLiteralLightsAPixel ==
    Dispatched
        => (/\ (op.data \in Literals
                  => (Len(sink) = 1 /\ sink[1].call = "set_pixel"
                      /\ sink[1].brightness = 100))
            /\ (op.data = <<5, 0, 69, 0, 1>>
                  => sink = <<[call |-> "set_pixel", x |-> 0, y |-> 0,
                               brightness |-> 100]>>)
            /\ (sink = <<[call |-> "off"]>> => op.data \notin Literals))

\* the pixel of each of the seven frames that light one
PixelOf(frame) ==
    CASE frame = <<5, 0, 69, 0, 1>> -> <<0, 0>>
      [] frame = <<5, 0, 69, 0, 127>> -> <<0, 1>>
      [] frame = <<5, 0, 69, 0, 255>> -> <<0, 2>>
      [] frame = <<5, 0, 69, 1, 1>> -> <<0, 3>>
      [] frame = <<5, 0, 69, 1, 127>> -> <<0, 4>>
      [] frame = <<5, 0, 69, 1, 255>> -> <<1, 0>>
      [] frame = <<5, 0, 8, 2, 1>> -> <<2, 0>>
      [] OTHER -> <<>>

\* C9 as amended: the seven frames of a pressed button each light their own
\* pixel at brightness 100 (Button A Plus the pixel (0,0)); every other
\* frame, the three "released" literals among them, clears the display.
C9_PressedLightsReleasedClears ==
    Dispatched
        => IF PixelOf(op.data) # <<>>
           THEN sink = <<[call |-> "set_pixel", x |-> PixelOf(op.data)[1],
                          y |-> PixelOf(op.data)[2], brightness |-> 100]>>
           ELSE sink = <<[call |-> "off"]>>

C9_Witness ==
    /\ Dispatched
    /\ op.data = <<5, 0, 69, 0, 0>>
    /\ sink = <<[call |-> "off"]>>

\* C10: disconnect() without a connection handle issues no transport
\* command and changes no field; with one it issues one gap_disconnect for
\* that handle and leaves every field as __init__ leaves it.
C10_Disconnect ==
    (op.name = "disconnect")
        => IF pre.conn_handle = None
           THEN cmds = <<>> /\ Snapshot = pre
           ELSE /\ cmds = <<[cmd |-> "gap_disconnect",
                             conn |-> pre.conn_handle]>>
                /\ Snapshot = Fresh

C10_Witness ==
    /\ op.name = "disconnect"
    /\ pre.conn_handle # None
    /\ pre.value_handle # None
    /\ pre.addr # None
    /\ pre.notify_callback # None
    /\ Snapshot = Fresh

\* the offsets of a buffer
Offsets(payload) == 0 .. (Len(payload) - 1)

\* the record the last iteration looked at lies wholly inside the buffer
LastRecordComplete ==
    dec.at + 1 + dec.payload[dec.at + 1] <= Len(dec.payload)

\* the last iteration appended a field
LastAppended ==
    /\ dec.iterations > 0
    /\ dec.payload[dec.at + 2] = dec.adv_type

\* C11: for every buffer, field decoding terminates (the loop runs at most
\* once per byte), reads no offset outside the buffer, and every field it
\* returns is the field of a record that lies wholly inside the buffer
C11_DecodeTotalAndComplete ==
    dec.pc \in {"loop", "done"} =>
        /\ dec.iterations <= Len(dec.payload)
        /\ dec.reads \subseteq Offsets(dec.payload)
        /\ (LastAppended => LastRecordComplete)

\* the payloads of the records of rs with tag t, in order
RECURSIVE PayloadsOf(_, _)
PayloadsOf(rs, t) ==
    IF rs = <<>> THEN <<>>
    ELSE IF Head(rs).tag = t
         THEN <<Head(rs).payload>> \o PayloadsOf(Tail(rs), t)
         ELSE PayloadsOf(Tail(rs), t)

HasTag(rs, t) == \E k \in 1 .. Len(rs) : rs[k].tag = t

\* C12: for the buffer of a list of records and a tag t, field decoding
\* returns exactly the payloads of the records with tag t, in buffer order;
\* without a record of a service tag decode_services returns the empty
\* list, and without a 0xFF record decode_manufacturer returns the empty
\* list
C12_DecodeWellFormed ==
    (dec.pc = "done" /\ dec.records # None) =>
        LET rs == Val(dec.records)
        IN  /\ dec.result = PayloadsOf(rs, dec.adv_type)
            /\ decode_field(dec.payload, dec.adv_type) = PayloadsOf(rs, dec.adv_type)
            /\ (~HasTag(rs, 3) /\ ~HasTag(rs, 5) /\ ~HasTag(rs, 7)
                    => decode_services(dec.payload) = Ok(<<>>))
            /\ (~HasTag(rs, 255)
                    => decode_manufacturer(dec.payload) = Ok([present |-> FALSE]))

\* two records of the searched tag, the first with a payload, both returned
C12_Witness ==
    /\ dec.pc = "done"
    /\ dec.records # None
    /\ Len(Val(dec.records)) = 2
    /\ Val(dec.records)[1].tag = dec.adv_type
    /\ Val(dec.records)[2].tag = dec.adv_type
    /\ Val(dec.records)[1].payload # <<>>
    /\ Len(dec.result) = 2

\* C13: the color-set command for a color byte c is the 8-byte frame
\* 0x08 0x00 0x81 0x34 0x11 0x51 0x00 c, its first byte is its length, for
\* green (0x06) it is 0x08 0x00 0x81 0x34 0x11 0x51 0x00 0x06, and on a
\* held connection this frame is what write() sends to the value handle
C13_ColorFrame ==
    op.name = "set_remote_color" =>
        LET frame == <<8, 0, 129, 52, 17, 81, 0, op.color_byte>>
        IN  /\ frame[1] = Len(frame)
            /\ (op.color_byte = 6 => frame = <<8, 0, 129, 52, 17, 81, 0, 6>>)
            /\ cmds = IF pre.conn_handle = None THEN <<>>
                      ELSE <<[cmd |-> "gattc_write", conn |-> pre.conn_handle,
                              handle |-> pre.value_handle, data |-> frame]>>

\* green was set on a Ready link
C13_Witness ==
    /\ op.name = "set_remote_color"
    /\ op.color_byte = COLOR_GREEN
    /\ PreReady
    /\ Len(cmds) = 1

\* C14: within one scan, after a scan-result event the cached address,
\* address type and manufacturer data are those of the first matching
\* result of this scan, and a matching result other than the first
\* requests no scan_stop
C14_FirstMatchKept ==
    (op.name = "IRQ_SCAN_RESULT" /\ scan_match # None /\ ~fault) =>
        /\ addr = ScanOutcome[2]
        /\ addr_type = ScanOutcome[1]
        /\ (ScanOutcome[3] # None => man_data = ScanOutcome[3])
        /\ (op.data # Val(scan_match) => cmds = <<>>)

\* C15: when the scan that just finished matched no peripheral, the scan
\* callback receives (None, None, None), whatever earlier scans cached
C15_NotFoundWhenNoMatch ==
    (op.name = "IRQ_SCAN_COMPLETE" /\ scan_match = None /\ calls # <<>>) =>
        calls[1].args = <<None, None, None>>

\* C16: a read-result or notify event handled while the link is not Ready,
\* or carrying a connection handle other than the held one, invokes no
\* callback
C16_DeliveredOnlyWhenReady ==
    (/\ op.name \in {"IRQ_GATTC_READ_RESULT", "IRQ_GATTC_NOTIFY"}
     /\ (~PreReady \/ Some(op.conn_handle) # pre.conn_handle)) => calls = <<>>

\* the identifier a discovery result is compared with
Expected(event) ==
    IF event = "IRQ_GATTC_SERVICE_RESULT" THEN LEGO_SERVICE_UUID
    ELSE LEGO_SERVICE_CHAR

\* C17: a service-result or characteristic-result event whose connection
\* handle is not the held one, or whose identifier is not the expected
\* one, issues no transport command, invokes no callback, raises nothing
\* and leaves every field of the handler as it was
C17_UnmatchedDiscoverySkipped ==
    (/\ op.name \in {"IRQ_GATTC_SERVICE_RESULT", "IRQ_GATTC_CHARACTERISTIC_RESULT"}
     /\ (Some(op.conn_handle) # pre.conn_handle \/ op.uuid # Expected(op.name)))
        => /\ cmds = <<>>
           /\ calls = <<>>
           /\ ~fault
           /\ Snapshot = pre

\* the LEGO characteristic reported for a connection other than the held
\* one, while a connection is held
C17_Witness ==
    /\ op.name = "IRQ_GATTC_CHARACTERISTIC_RESULT"
    /\ op.uuid = LEGO_SERVICE_CHAR
    /\ pre.conn_handle # None
    /\ Some(op.conn_handle) # pre.conn_handle
    /\ Snapshot = pre

\* the transport commands that carry a connection handle
HandleCmds ==
    {"gattc_write", "gattc_read", "gap_disconnect",
     "gattc_discover_services", "gattc_discover_characteristics"}

\* the step that invalidated the handle: the disconnect event for the held
\* handle, or disconnect() (whose gap_disconnect is the invalidation)
JustInvalidated ==
    /\ op.name \in {"disconnect", "IRQ_PERIPHERAL_DISCONNECT"}
    /\ pre.conn_handle = invalidated

\* C18: after the held handle was invalidated (by its disconnect event or
\* by disconnect()) and until the next peripheral-connect event, no
\* transport command carries that handle
C18_NoUseAfterInvalidation ==
    (invalidated # None /\ ~JustInvalidated) =>
        \A k \in 1 .. Len(cmds) :
            cmds[k].cmd \in HandleCmds => cmds[k].conn # invalidated

\* C19: a captured value handle implies a held connection handle, and a
\* peripheral-connect event leaves no value handle of an earlier
\* connection beside the new connection handle
C19_ValueHandleOfHeldConnection ==
    /\ (value_handle # None => conn_handle # None)
    /\ (op.name = "IRQ_PERIPHERAL_CONNECT" => value_handle = None)

\* C20: discover_services is requested only on a peripheral-connect event;
\* discover_characteristics only on a service result with the held handle
\* and the LEGO service identifier; a characteristic result invokes the
\* ready callback or captures a value handle only after
\* discover_characteristics was requested for the current connection
C20_LifecycleInOrder ==
    /\ (Issued(cmds, "gattc_discover_services")
            => op.name = "IRQ_PERIPHERAL_CONNECT")
    /\ (Issued(cmds, "gattc_discover_characteristics")
            => /\ op.name = "IRQ_GATTC_SERVICE_RESULT"
               /\ pre.conn_handle = Some(op.conn_handle)
               /\ op.uuid = LEGO_SERVICE_UUID)
    /\ ((/\ op.name = "IRQ_GATTC_CHARACTERISTIC_RESULT"
         /\ (calls # <<>> \/ value_handle # pre.value_handle))
            => discovering)

=============================================================================
